---- MODULE Spec2Model ----
(***************************************************************************)
(* Connection lifecycle state machine of gm-quic                          *)
(* (qconnection/src/connection.rs): the ConnState holder behind the       *)
(* ArcConnection mutex, the error-signal monitor task, the closing race   *)
(* task, the drain timer, the accessors and the router removals.          *)
(*                                                                         *)
(* Every action is one critical section of the connection mutex (or one   *)
(* whole handler when the handler is a single critical section).          *)
(* ArcConnection::close releases the mutex between its check and its call *)
(* of should_enter_closing, so it is two actions.  The monitor task is    *)
(* two actions as well: the await that yields (err, kind) and the         *)
(* dispatch that takes the mutex.                                          *)
(*                                                                         *)
(* std::sync::Mutex is not reentrant: a second lock() by the thread that  *)
(* holds the guard never returns, it deadlocks or panics (unspecified).   *)
(* Both outcomes are kept: lock = "stuck" (every later lock() blocks) and *)
(* lock = "poisoned" (the guard was dropped by a panicking thread, every  *)
(* later lock().unwrap() panics).                                          *)
(***************************************************************************)
EXTENDS Integers, FiniteSets, Sequences, TLC

\* ---------------------------------------------------------------- bounds
MaxCids == 2
MaxPaths == 1
MaxClose == 2
MaxSuspended == 1
MaxSize == 2
MaxQueue == 1
MaxPairs == 2

Cids == 1..MaxCids
PathIds == 1..MaxPaths
Msgs == 1..MaxClose
\* datagram frame sizes
Sizes == 0..MaxSize
\* probe-timeout estimates of a path for Epoch::Data, in milliseconds
PtoVals == {100, 150}
\* time already spent in the closing race when the confirmation arrives
ElapsedVals == {0, 100}

\* ---------------------------------------------------------------- errors
Kinds == {"Application", "Transport", "CcfReceived", "NoViablePath"}
NoErr == [kind |-> "None", reason |-> 0]
AppError(m) == [kind |-> "Application", reason |-> m]
TransportError == [kind |-> "Transport", reason |-> 0]
CcfError == [kind |-> "CcfReceived", reason |-> 0]
NoViablePathError == [kind |-> "NoViablePath", reason |-> 0]
RaisedErrors == {TransportError, CcfError, NoViablePathError}

Subsystems == {"datagrams", "flow_ctrl", "streams", "params"}
Accessors == {"open_bi_stream", "open_uni_stream", "accept_bi_stream",
              "accept_uni_stream", "datagram_reader", "datagram_writer"}

\* ---------------------------------------------------------------- state
VARIABLES
    state,      \* the ConnState in the mutex: [tag, error, cids, hs, one_rtt]
    lock,       \* the mutex: "free", "held", "stuck" or "poisoned"
    pathes,     \* raw_conn.pathes: path id -> pto_time(Epoch::Data)
    registered, \* the connection IDs registered in the router at construction
    removed,    \* number of Router::remove calls per connection ID
    subErr,     \* error each subsystem was given by on_conn_error
    notifyCnt,  \* number of on_conn_error calls per subsystem
    tlsAborts,  \* number of tls_session.abort() calls
    handles,    \* the four receive-task join handles: "raw", "forwarding", "dropped"
    signal,     \* the connection-error signal: [err, kind]
    mon,        \* the monitor task: [pc, err, kind, pre, res]
    closeCall,  \* per close(msg) call: "idle", "checked", "done"
    race,       \* the closing race task: [pc, evt, res, budget]
    drainTimer, \* remaining time of the spawned drain timer task, 0 if none
    suspended,  \* number of accessor calls waiting at each await
    flow,       \* the DatagramFlow: [local, remote, reader, writer, pairs, arg,
                \*   first, calls]
    last        \* the last operation: [op, pre, res, err]

vars == <<state, lock, pathes, registered, removed, subErr, notifyCnt,
          tlsAborts, handles, signal, mon, closeCall, race, drainTimer,
          suspended, flow, last>>

\* ------------------------------------------------------------- ConnState
Closed == [tag |-> "Closed", error |-> NoErr, cids |-> {},
           hs |-> FALSE, one_rtt |-> FALSE]
RawState(cids, hs, data) ==
    [tag |-> "Raw", error |-> NoErr, cids |-> cids, hs |-> hs, one_rtt |-> data]
ClosingState(error, cids, hs, data) ==
    [tag |-> "Closing", error |-> error, cids |-> cids, hs |-> hs, one_rtt |-> data]
DrainingState(cids, error) ==
    [tag |-> "Draining", error |-> error, cids |-> cids,
     hs |-> FALSE, one_rtt |-> FALSE]

Max(S) == CHOOSE x \in S : \A y \in S : y <= x
Ptos(p) == {p[i] : i \in DOMAIN p}
PtoTime(p) == Max(Ptos(p))

\* result of a ConnState method: the new holder content, the returned
\* timeout (0 stands for None), whether the subsystems were notified, the
\* connection IDs handed to Router::remove and whether the method panicked
Outcome(st, pto, bcast, rm, panic) ==
    [st |-> st, pto |-> pto, bcast |-> bcast, rm |-> rm, panic |-> panic]

ShouldEnterClose_EitherDiscarded(st, error, p) ==
    IF st.tag # "Raw" THEN Outcome(st, 0, FALSE, {}, FALSE)
    ELSE IF Ptos(p) = {} THEN Outcome(Closed, 0, TRUE, {}, TRUE)
    ELSE IF ~st.hs \/ ~st.one_rtt
         THEN Outcome(DrainingState(st.cids, error), PtoTime(p), TRUE, {}, FALSE)
         ELSE Outcome(ClosingState(error, st.cids, st.hs, st.one_rtt),
                      PtoTime(p), TRUE, {}, FALSE)

ShouldEnterClose(st, error, p) ==
    IF st.tag # "Raw" THEN Outcome(st, 0, FALSE, {}, FALSE)
    ELSE IF Ptos(p) = {} THEN Outcome(Closed, 0, TRUE, {}, TRUE)
    ELSE IF ~st.hs /\ ~st.one_rtt
         THEN Outcome(DrainingState(st.cids, error), PtoTime(p), TRUE, {}, FALSE)
         ELSE Outcome(ClosingState(error, st.cids, st.hs, st.one_rtt),
                      PtoTime(p), TRUE, {}, FALSE)

EnterDraining_Unguarded(st, error, p) ==
    IF Ptos(p) = {} THEN Outcome(DrainingState(st.cids, error), 0, TRUE, {}, TRUE)
    ELSE Outcome(DrainingState(st.cids, error), PtoTime(p), TRUE, {}, FALSE)

EnterDraining_NotifyFirst(st, error, p) ==
    IF st.tag # "Raw" THEN Outcome(st, 0, TRUE, {}, FALSE)
    ELSE IF Ptos(p) = {} THEN Outcome(DrainingState(st.cids, error), 0, TRUE, {}, TRUE)
    ELSE Outcome(DrainingState(st.cids, error), PtoTime(p), TRUE, {}, FALSE)

EnterDraining(st, error, p) ==
    IF st.tag # "Raw" THEN Outcome(st, 0, FALSE, {}, FALSE)
    ELSE IF Ptos(p) = {} THEN Outcome(DrainingState(st.cids, error), 0, TRUE, {}, TRUE)
    ELSE Outcome(DrainingState(st.cids, error), PtoTime(p), TRUE, {}, FALSE)

NoVaiablePath_NoRemove(st) ==
    IF st.tag # "Raw" THEN Outcome(Closed, 0, FALSE, {}, FALSE)
    ELSE Outcome(Closed, 0, TRUE, {}, FALSE)

NoVaiablePath(st) ==
    IF st.tag # "Raw" THEN Outcome(Closed, 0, FALSE, {}, FALSE)
    ELSE Outcome(Closed, 0, TRUE, st.cids, FALSE)

Die(st) ==
    IF st.tag \in {"Closing", "Draining"}
    THEN Outcome(Closed, 0, FALSE, st.cids, FALSE)
    ELSE Outcome(Closed, 0, FALSE, {}, TRUE)

\* ---------------------------------------------------------- DatagramFlow
\* the content of a DatagramReader / DatagramWriter cell: the size limit it
\* was created with, the connection error once it has one, and its queue
RawDatagramReaderNew(limit) == [limit |-> limit, err |-> NoErr, queued |-> 0]
RawDatagramWriterNew(limit) == [limit |-> limit, err |-> NoErr, queue |-> <<>>]

\* RawDatagramFlow::new / DatagramFlow::new; local, negotiated and arg only
\* record the calls made on the flow: local the local size given to new,
\* negotiated the remote size its callers have agreed (the remote size
\* given to new, then the size of every update the writer accepted), arg
\* the argument of the last call; first is the error of the first
\* on_conn_error call that returned, calls the position of two callers of
\* on_conn_error
FlowNew(local, remote) ==
    [local |-> local, negotiated |-> remote,
     reader |-> RawDatagramReaderNew(remote),
     writer |-> RawDatagramWriterNew(local),
     pairs |-> 0, arg |-> 0, first |-> NoErr,
     calls |-> <<"idle", "idle">>]

\* DatagramReader::on_conn_error / DatagramWriter::on_conn_error: the first
\* error stays
ReaderOnConnError(r, e) == IF r.err = NoErr THEN [r EXCEPT !.err = e] ELSE r
WriterOnConnError(w, e) == IF w.err = NoErr THEN [w EXCEPT !.err = e] ELSE w

FlowOnConnError(f, e) ==
    [f EXCEPT !.reader = ReaderOnConnError(f.reader, e),
              !.writer = WriterOnConnError(f.writer, e)]

\* DatagramWriter::update_remote_max_datagram_frame_size: [w, res]
WriterUpdateRemoteMax(w, n) ==
    IF w.err # NoErr THEN [w |-> w, res |-> "ok"]
    ELSE IF n < w.limit THEN [w |-> w, res |-> "err"]
    ELSE [w |-> [w EXCEPT !.limit = n], res |-> "ok"]

\* DatagramFlow::update_remote_max_datagram_frame_size: [f, res]
FlowUpdateRemoteMax(f, n) ==
    LET u == WriterUpdateRemoteMax(f.writer, n) IN
    [f |-> [f EXCEPT !.writer = u.w, !.arg = n,
                     !.negotiated = IF f.writer.err = NoErr /\ u.res = "ok"
                                    THEN n ELSE @],
     res |-> u.res]

\* DatagramReader::recv_datagram with a payload of len bytes: [r, res]
ReaderRecvDatagram(r, len) ==
    IF r.err # NoErr THEN [r |-> r, res |-> "ok"]
    ELSE IF len > r.limit THEN [r |-> r, res |-> "err"]
    ELSE [r |-> [r EXCEPT !.queued = @ + 1], res |-> "ok"]

\* DatagramFlow::recv_datagram: [f, res]
FlowRecvDatagram(f, len) ==
    LET u == ReaderRecvDatagram(f.reader, len) IN
    [f |-> [f EXCEPT !.reader = u.r, !.arg = len], res |-> u.res]

\* DatagramWriter::try_read_datagram with a transport budget of limit
\* bytes: the first queued datagram leaves when it fits the budget and the
\* negotiated size
WriterTryReadDatagram(w, limit) ==
    IF w.err # NoErr \/ w.queue = <<>> THEN [w |-> w, res |-> "none"]
    ELSE IF Head(w.queue) > limit \/ Head(w.queue) > w.limit
    THEN [w |-> w, res |-> "none"]
    ELSE [w |-> [w EXCEPT !.queue = Tail(@)], res |-> "ok"]

\* DatagramFlow::try_read_datagram: [f, res]
FlowTryReadDatagram(f, limit) ==
    LET u == WriterTryReadDatagram(f.writer, limit) IN
    [f |-> [f EXCEPT !.writer = u.w, !.arg = limit], res |-> u.res]

\* what ArcConnection::is_active returns on a holder with the given tag
IsActive(tag) == ~(tag = "Raw")

\* ------------------------------------------------------------- helpers
\* what self.0.lock().unwrap() does in the current state of the mutex
LockRes == IF lock = "free" THEN "ok"
           ELSE IF lock \in {"stuck", "held"} THEN "blocked" ELSE "panic"

Op(op, res, err) == [op |-> op, pre |-> state.tag, res |-> res, err |-> err]

\* the on_conn_error calls, tls_session.abort() and notify_waiters() that
\* the three transitions out of Raw make
Broadcast(error) ==
    /\ subErr' = [s \in Subsystems |->
                    IF subErr[s] = NoErr THEN error ELSE subErr[s]]
    /\ notifyCnt' = [s \in Subsystems |-> notifyCnt[s] + 1]
    /\ tlsAborts' = tlsAborts + 1
    /\ flow' = FlowOnConnError(flow, error)

NoBroadcast == UNCHANGED <<subErr, notifyCnt, tlsAborts, flow>>

RouterRemove(cids) ==
    removed' = [c \in Cids |-> IF c \in cids THEN removed[c] + 1 ELSE removed[c]]

\* ArcConnection::draining(remaining), called with the mutex in state lk,
\* held telling whether the calling thread still owns the guard, on a holder
\* with the given tag: the mutex afterwards, the drain timer it spawned
\* (0: none) and how the call ended
ArcDraining(lk, held, tag, remaining) ==
    IF held THEN {[lock |-> "stuck", timer |-> 0, res |-> "blocked"],
                  [lock |-> "poisoned", timer |-> 0, res |-> "panic"]}
    ELSE IF lk = "stuck" THEN {[lock |-> lk, timer |-> 0, res |-> "blocked"]}
    ELSE IF lk = "poisoned" THEN {[lock |-> lk, timer |-> 0, res |-> "panic"]}
    ELSE IF tag # "Draining" THEN {[lock |-> lk, timer |-> 0, res |-> "panic"]}
    ELSE {[lock |-> lk, timer |-> remaining, res |-> "ok"]}

\* ArcConnection::should_enter_closing(error); sets last with the name op
ArcShouldEnterClosing(op, error) ==
    IF LockRes # "ok"
    THEN /\ last' = Op(op, LockRes, error)
         /\ NoBroadcast
         /\ UNCHANGED <<state, lock, removed, handles, race, drainTimer>>
    ELSE IF state.tag # "Raw"
    THEN /\ last' = Op(op, "none", error)
         /\ NoBroadcast
         /\ UNCHANGED <<state, lock, removed, handles, race, drainTimer>>
    ELSE LET r == ShouldEnterClose(state, error, pathes) IN
         /\ state' = r.st
         /\ Broadcast(error)
         /\ UNCHANGED removed
         /\ IF r.panic
            THEN /\ lock' = "poisoned"
                 /\ handles' = "dropped"
                 /\ last' = Op(op, "panic", error)
                 /\ UNCHANGED <<race, drainTimer>>
            ELSE IF r.st.tag = "Closing"
            THEN /\ handles' = "forwarding"
                 /\ race' = [pc |-> "racing", evt |-> "none", res |-> "none",
                             budget |-> r.pto * 3]
                 /\ last' = Op(op, "ok", error)
                 /\ UNCHANGED <<lock, drainTimer>>
            ELSE /\ handles' = "dropped"
                 /\ \E d \in ArcDraining(lock, TRUE, r.st.tag, r.pto * 3) :
                       /\ lock' = d.lock
                       /\ drainTimer' = IF d.timer = 0 THEN drainTimer ELSE d.timer
                       /\ last' = Op(op, d.res, error)
                 /\ UNCHANGED race

\* ArcConnection::enter_draining(error)
ArcEnterDraining(op, error) ==
    IF LockRes # "ok"
    THEN /\ last' = Op(op, LockRes, error)
         /\ NoBroadcast
         /\ UNCHANGED <<state, lock, removed, handles, race, drainTimer>>
    ELSE LET r == EnterDraining(state, error, pathes) IN
         /\ state' = r.st
         /\ IF r.bcast THEN Broadcast(error) ELSE NoBroadcast
         /\ UNCHANGED <<removed, race>>
         /\ IF r.panic
            THEN /\ lock' = "poisoned"
                 /\ handles' = "dropped"
                 /\ last' = Op(op, "panic", error)
                 /\ UNCHANGED drainTimer
            ELSE IF r.pto = 0
            THEN /\ last' = Op(op, "none", error)
                 /\ UNCHANGED <<lock, handles, drainTimer>>
            ELSE /\ handles' = "dropped"
                 /\ \E d \in ArcDraining(lock, TRUE, r.st.tag, r.pto * 3) :
                       /\ lock' = d.lock
                       /\ drainTimer' = IF d.timer = 0 THEN drainTimer ELSE d.timer
                       /\ last' = Op(op, d.res, error)

\* ArcConnection::no_vaiable_path()
ArcNoVaiablePath(op) ==
    IF LockRes # "ok"
    THEN /\ last' = Op(op, LockRes, NoViablePathError)
         /\ NoBroadcast
         /\ UNCHANGED <<state, lock, removed, handles, race, drainTimer>>
    ELSE LET r == NoVaiablePath(state) IN
         /\ state' = r.st
         /\ IF r.bcast THEN Broadcast(NoViablePathError) ELSE NoBroadcast
         /\ RouterRemove(r.rm)
         /\ handles' = IF state.tag = "Raw" THEN "dropped" ELSE handles
         /\ last' = Op(op, IF r.bcast THEN "ok" ELSE "none", NoViablePathError)
         /\ UNCHANGED <<lock, race, drainTimer>>

\* ArcConnection::die(); res is the way the call ended
ArcDie(op) ==
    IF LockRes # "ok"
    THEN /\ last' = Op(op, LockRes, NoErr)
         /\ UNCHANGED <<state, lock, removed, handles>>
    ELSE LET r == Die(state) IN
         /\ state' = r.st
         /\ RouterRemove(r.rm)
         /\ lock' = IF r.panic THEN "poisoned" ELSE lock
         /\ handles' = IF state.tag = "Raw" THEN "dropped" ELSE handles
         /\ last' = Op(op, IF r.panic THEN "panic" ELSE "ok", NoErr)

\* the match on ConnErrorKind in the monitor task: the procedure each kind
\* of error is dispatched to
MonitorTarget_Redispatch(kind) ==
    IF kind = "Application" THEN "should_enter_closing"
    ELSE IF kind = "Transport" THEN "should_enter_closing"
    ELSE IF kind = "CcfReceived" THEN "enter_draining"
    ELSE "no_vaiable_path"

MonitorTarget(kind) ==
    IF kind = "Application" THEN "nothing"
    ELSE IF kind = "Transport" THEN "should_enter_closing"
    ELSE IF kind = "CcfReceived" THEN "enter_draining"
    ELSE "no_vaiable_path"

\* ----------------------------------------------------------------- Init
\* A connection right after construction (From<RawConnection>): Raw, both
\* crypto spaces still present, the connection IDs of Cids registered, no
\* path yet (add_initial_path is a call of its own), the monitor task
\* spawned and waiting.
ConnInit ==
    /\ state = RawState(Cids, TRUE, TRUE)
    /\ registered = Cids
    /\ lock = "free"
    /\ pathes = <<>>
    /\ removed = [c \in Cids |-> 0]
    /\ subErr = [s \in Subsystems |-> NoErr]
    /\ notifyCnt = [s \in Subsystems |-> 0]
    /\ tlsAborts = 0
    /\ handles = "raw"
    /\ signal = [err |-> NoErr, kind |-> "None"]
    /\ mon = [pc |-> "waiting", err |-> NoErr, kind |-> "None",
              pre |-> "None", res |-> "none"]
    /\ closeCall = [m \in Msgs |-> "idle"]
    /\ race = [pc |-> "none", evt |-> "none", res |-> "none", budget |-> 0]
    /\ drainTimer = 0
    /\ suspended = [w \in {"params_stream", "params_datagram", "stream"} |-> 0]
    /\ last = [op |-> "new", pre |-> "None", res |-> "ok", err |-> NoErr]

\* the connection with the datagram flow of its transport parameters
Init == ConnInit /\ flow = FlowNew(1, 2)

\* -------------------------------------------------------------- actions
\* ArcConnection::add_initial_path on a pathway not known yet
AddInitialPath ==
    /\ lock = "free"
    /\ state.tag = "Raw"
    /\ \E i \in PathIds \ DOMAIN pathes, t \in PtoVals :
          /\ i = Cardinality(DOMAIN pathes) + 1
          /\ pathes' = [j \in DOMAIN pathes \cup {i} |->
                         IF j = i THEN t ELSE pathes[j]]
    /\ last' = Op("add_initial_path", "ok", NoErr)
    /\ UNCHANGED <<state, lock, registered, suspended, removed, subErr, flow,
                   notifyCnt, tlsAborts, handles, signal, mon, closeCall,
                   race, drainTimer>>

\* the handshake space of the Raw connection is discarded
DiscardHandshakeSpace ==
    /\ lock = "free"
    /\ state.tag = "Raw"
    /\ state.hs
    /\ state' = [state EXCEPT !.hs = FALSE]
    /\ last' = Op("discard_hs", "ok", NoErr)
    /\ UNCHANGED <<lock, pathes, registered, suspended, removed, subErr, flow,
                   notifyCnt, tlsAborts, handles, signal, mon, closeCall,
                   race, drainTimer>>

\* the 1-RTT data space of the Raw connection is discarded
DiscardDataSpace ==
    /\ lock = "free"
    /\ state.tag = "Raw"
    /\ state.one_rtt
    /\ state' = [state EXCEPT !.one_rtt = FALSE]
    /\ last' = Op("discard_data", "ok", NoErr)
    /\ UNCHANGED <<lock, pathes, registered, suspended, removed, subErr, flow,
                   notifyCnt, tlsAborts, handles, signal, mon, closeCall,
                   race, drainTimer>>

\* a subsystem, a path or the peer raises an error on the connection-error
\* signal; the first error wins
RaiseError ==
    /\ signal.kind = "None"
    /\ \E e \in RaisedErrors : signal' = [err |-> e, kind |-> e.kind]
    /\ last' = Op("on_error", "ok", NoErr)
    /\ UNCHANGED <<state, lock, pathes, registered, suspended, removed,
                   subErr, flow, notifyCnt, tlsAborts, handles, mon,
                   closeCall, race, drainTimer>>

\* ArcConnection::close, first critical section: the Raw check and
\* set_app_error; the guard is dropped before should_enter_closing.
\* The calls are numbered in the order in which they take the mutex.
CloseBegin ==
    \E m \in Msgs :
      /\ closeCall[m] = "idle"
      /\ \A k \in Msgs : k < m => closeCall[k] # "idle"
      /\ IF LockRes # "ok"
         THEN /\ closeCall' = [closeCall EXCEPT ![m] = "done"]
              /\ last' = Op("close", LockRes, AppError(m))
              /\ UNCHANGED signal
         ELSE IF state.tag # "Raw"
         THEN /\ closeCall' = [closeCall EXCEPT ![m] = "done"]
              /\ last' = Op("close", "none", AppError(m))
              /\ UNCHANGED signal
         ELSE /\ closeCall' = [closeCall EXCEPT ![m] = "checked"]
              /\ signal' = IF signal.kind = "None"
                           THEN [err |-> AppError(m), kind |-> "Application"]
                           ELSE signal
              /\ last' = Op("close", "checked", AppError(m))
      /\ UNCHANGED <<state, lock, pathes, registered, suspended, removed,
                     subErr, flow, notifyCnt, tlsAborts, handles, mon, race,
                     drainTimer>>

\* ArcConnection::close, second part: self.should_enter_closing(error)
CloseEnter ==
    \E m \in Msgs :
      /\ closeCall[m] = "checked"
      /\ closeCall' = [closeCall EXCEPT ![m] = "done"]
      /\ ArcShouldEnterClosing("should_enter_closing", AppError(m))
      /\ UNCHANGED <<pathes, registered, suspended, signal, mon>>

\* the monitor task: conn_error.did_error_occur().await returns
MonitorObserve ==
    /\ mon.pc = "waiting"
    /\ signal.kind # "None"
    /\ mon' = [mon EXCEPT !.pc = "observed", !.err = signal.err,
                          !.kind = signal.kind]
    /\ last' = Op("did_error_occur", "ok", signal.err)
    /\ UNCHANGED <<state, lock, pathes, registered, suspended, removed,
                   subErr, flow, notifyCnt, tlsAborts, handles, signal,
                   closeCall, race, drainTimer>>

\* the monitor task: the dispatch on the kind of the error
MonitorDispatch ==
    /\ mon.pc = "observed"
    /\ LET t == MonitorTarget(mon.kind) IN
       \/ /\ t = "nothing"
          /\ last' = Op("monitor_noop", "none", mon.err)
          /\ NoBroadcast
          /\ UNCHANGED <<state, lock, removed, handles, race, drainTimer>>
       \/ /\ t = "should_enter_closing"
          /\ ArcShouldEnterClosing("should_enter_closing", mon.err)
       \/ /\ t = "enter_draining"
          /\ ArcEnterDraining("enter_draining", mon.err)
       \/ /\ t = "no_vaiable_path"
          /\ ArcNoVaiablePath("no_vaiable_path")
    /\ mon' = [mon EXCEPT !.pc = "done", !.pre = state.tag, !.res = last'.res]
    /\ UNCHANGED <<pathes, registered, suspended, signal, closeCall>>

\* the closing race task: rcvd_ccf.did_recv() completes before the timeout
RaceCcf ==
    /\ race.pc = "racing"
    /\ \E e \in ElapsedVals :
         \E d \in ArcDraining(lock, FALSE, state.tag, race.budget - e) :
            /\ lock' = d.lock
            /\ drainTimer' = IF d.timer = 0 THEN drainTimer ELSE d.timer
            /\ race' = [race EXCEPT !.pc = "done", !.evt = "ccf", !.res = d.res]
            /\ last' = Op("draining", d.res, NoErr)
    /\ UNCHANGED <<state, pathes, registered, suspended, removed, subErr,
                   flow, notifyCnt, tlsAborts, handles, signal, mon,
                   closeCall>>

\* the closing race task: the timeout of 3 x pto expires first
RaceTimeout ==
    /\ race.pc = "racing"
    /\ ArcDie("timer_die")
    /\ race' = [race EXCEPT !.pc = "done", !.evt = "timeout", !.res = last'.res]
    /\ UNCHANGED <<pathes, registered, suspended, subErr, flow, notifyCnt,
                   tlsAborts, signal, mon, closeCall, drainTimer>>

\* ArcConnection::die called by the application
AppDie ==
    /\ ArcDie("die")
    /\ UNCHANGED <<pathes, registered, suspended, subErr, flow, notifyCnt,
                   tlsAborts, signal, mon, closeCall, race, drainTimer>>

\* the connection mutex when an accessor reaches its await: the guard
\* lives in the block that takes the snapshot and is dropped at its end
GuardAtAwait_Held == "held"

GuardAtAwait == "free"

\* the await an asynchronous accessor reaches first: accept_uni_stream has
\* no parameter read, datagram_writer has only the parameter read
FirstAwait(a) ==
    IF a = "accept_uni_stream" THEN "stream"
    ELSE IF a = "datagram_writer" THEN "params_datagram"
    ELSE "params_stream"

NumSuspended == suspended["params_stream"] + suspended["params_datagram"]
                + suspended["stream"]

\* ConnError::on_error(e) on the connection-error signal: the first error
\* stays
OnError(sig, e) == IF sig.kind = "None" THEN [err |-> e, kind |-> e.kind] ELSE sig

\* one of the six accessors, up to its first suspension point: the match
\* on the state under the mutex; on Raw the asynchronous accessors take
\* their snapshot and suspend, datagram_reader returns at once
Accessor ==
    /\ \E a \in Accessors :
         IF LockRes # "ok"
         THEN /\ last' = Op(a, LockRes, NoErr)
              /\ UNCHANGED <<lock, suspended>>
         ELSE IF state.tag = "Raw"
         THEN IF a = "datagram_reader"
              THEN /\ last' = Op(a, "ok", NoErr)
                   /\ UNCHANGED <<lock, suspended>>
              ELSE /\ NumSuspended < MaxSuspended
                   /\ suspended' = [suspended EXCEPT ![FirstAwait(a)] = @ + 1]
                   /\ lock' = GuardAtAwait
                   /\ last' = Op(a, "pending", NoErr)
         ELSE IF state.tag \in {"Closing", "Draining"}
         THEN /\ last' = Op(a, "err", state.error)
              /\ UNCHANGED <<lock, suspended>>
         ELSE /\ last' = Op(a, "panic", NoErr)
              /\ lock' = "poisoned"
              /\ UNCHANGED suspended
    /\ UNCHANGED <<state, pathes, registered, removed, subErr, flow,
                   notifyCnt, tlsAborts, handles, signal, mon, closeCall,
                   race, drainTimer>>

\* remote_params.read().await ends for a suspended accessor: with the
\* connection error once the parameters were given one (the accessor
\* returns it), otherwise with the parameters; a stream accessor then
\* suspends on its stream operation, datagram_writer returns the writer
AccessorParamsRead ==
    /\ \E w \in {"params_stream", "params_datagram"} :
         /\ suspended[w] > 0
         /\ IF subErr["params"] # NoErr
            THEN /\ suspended' = [suspended EXCEPT ![w] = @ - 1]
                 /\ last' = Op("params_read", "err", subErr["params"])
            ELSE IF w = "params_stream"
            THEN /\ suspended' = [suspended EXCEPT ![w] = @ - 1,
                                                   !["stream"] = @ + 1]
                 /\ last' = Op("params_read", "pending", NoErr)
            ELSE /\ suspended' = [suspended EXCEPT ![w] = @ - 1]
                 /\ last' = Op("params_read", "ok", NoErr)
    /\ UNCHANGED <<state, lock, pathes, registered, removed, subErr, flow,
                   notifyCnt, tlsAborts, handles, signal, mon, closeCall,
                   race, drainTimer>>

\* the stream operation of a suspended accessor ends: with the connection
\* error once the streams were given one, and then inspect_err hands it to
\* conn_error.on_error before the accessor returns it
AccessorResume ==
    /\ suspended["stream"] > 0
    /\ suspended' = [suspended EXCEPT !["stream"] = @ - 1]
    /\ IF subErr["streams"] = NoErr
       THEN /\ last' = Op("resume", "ok", NoErr)
            /\ UNCHANGED signal
       ELSE /\ last' = Op("resume", "err", subErr["streams"])
            /\ signal' = OnError(signal, subErr["streams"])
    /\ UNCHANGED <<state, lock, pathes, registered, removed, subErr, flow,
                   notifyCnt, tlsAborts, handles, mon, closeCall,
                   race, drainTimer>>

NextNoDie ==
    \/ AddInitialPath
    \/ DiscardHandshakeSpace
    \/ DiscardDataSpace
    \/ RaiseError
    \/ CloseBegin
    \/ CloseEnter
    \/ MonitorObserve
    \/ MonitorDispatch
    \/ RaceCcf
    \/ RaceTimeout
    \/ Accessor
    \/ AccessorParamsRead
    \/ AccessorResume

Next == NextNoDie \/ AppDie

\* every operation of the handle, the application's die included
Spec == Init /\ [][Next]_vars

\* the terminal triggers only: close, the monitor and the timer tasks
SpecNoDie == Init /\ [][NextNoDie]_vars

\* ArcConnection::is_active(): locks, looks at the holder, unlocks
IsActiveCall ==
    /\ last' = Op("is_active",
                  IF LockRes # "ok" THEN LockRes
                  ELSE IF IsActive(state.tag) THEN "true" ELSE "false",
                  NoErr)
    /\ UNCHANGED <<state, lock, pathes, registered, removed, subErr, flow,
                   notifyCnt, tlsAborts, handles, signal, mon, closeCall,
                   race, drainTimer, suspended>>

NextActive == Next \/ IsActiveCall

\* the operations of the handle with the is_active query among them
SpecActive == Init /\ [][NextActive]_vars

\* ------------------------------------------- the timer of draining()
\* the task spawned by draining(): tokio::time::sleep(remaining) is over
\* and it calls conn.die()
DrainTimerFire ==
    /\ drainTimer > 0
    /\ drainTimer' = 0
    /\ ArcDie("drain_die")
    /\ UNCHANGED <<pathes, registered, suspended, subErr, flow, notifyCnt,
                   tlsAborts, signal, mon, closeCall, race>>

NextTimer == Next \/ DrainTimerFire

\* the operations of the handle with the timer task of draining(); the
\* task is spawned only once draining() has passed its assertion
SpecTimer == Init /\ [][NextTimer]_vars

\* ------------------------------------------------- the DatagramFlow alone
\* the variables of the connection, which the operations of the flow leave
\* alone
connVars == <<state, lock, pathes, registered, removed, subErr, notifyCnt,
              tlsAborts, handles, signal, mon, closeCall, race, drainTimer,
              suspended>>

\* DatagramReader::read through a handle: [r, res, err]
ReaderRead(r) ==
    IF r.err # NoErr THEN [r |-> r, res |-> "err", err |-> r.err]
    ELSE IF r.queued = 0 THEN [r |-> r, res |-> "pending", err |-> NoErr]
    ELSE [r |-> [r EXCEPT !.queued = @ - 1], res |-> "ok", err |-> NoErr]

\* DatagramWriter::send through a handle, len bytes: [w, res, err]
WriterWrite(w, len) ==
    IF w.err # NoErr THEN [w |-> w, res |-> "err", err |-> w.err]
    ELSE IF len > w.limit THEN [w |-> w, res |-> "too_large", err |-> NoErr]
    ELSE [w |-> [w EXCEPT !.queue = Append(@, len)], res |-> "ok", err |-> NoErr]

\* DatagramFlow::new(local, remote) for every pair of sizes
InitFlow ==
    /\ ConnInit
    /\ \E local \in Sizes, remote \in Sizes : flow = FlowNew(local, remote)

UpdateRemoteMax ==
    /\ \E n \in Sizes :
         LET u == FlowUpdateRemoteMax(flow, n) IN
         /\ flow' = u.f
         /\ last' = Op("update_remote_max", u.res, NoErr)
    /\ UNCHANGED connVars

RecvDatagram ==
    /\ flow.reader.queued < MaxQueue
    /\ \E len \in Sizes :
         LET u == FlowRecvDatagram(flow, len) IN
         /\ flow' = u.f
         /\ last' = Op("recv_datagram", u.res, NoErr)
    /\ UNCHANGED connVars

TryReadDatagram ==
    /\ \E limit \in Sizes :
         LET u == FlowTryReadDatagram(flow, limit) IN
         /\ flow' = u.f
         /\ last' = Op("try_read_datagram", u.res, NoErr)
    /\ UNCHANGED connVars

\* DatagramFlow::rw: one more handle pair on the same two cells
Rw ==
    /\ flow.pairs < MaxPairs
    /\ flow' = [flow EXCEPT !.pairs = @ + 1]
    /\ last' = Op("rw", "ok", NoErr)
    /\ UNCHANGED connVars

\* a read through the reader of a handle pair
HandleRead ==
    /\ \E h \in 1..flow.pairs :
         LET u == ReaderRead(flow.reader) IN
         /\ flow' = [flow EXCEPT !.reader = u.r, !.arg = h]
         /\ last' = Op("read", u.res, u.err)
    /\ UNCHANGED connVars

\* a write through the writer of a handle pair
HandleWrite ==
    /\ Len(flow.writer.queue) < MaxQueue
    /\ \E h \in 1..flow.pairs, len \in Sizes :
         LET u == WriterWrite(flow.writer, len) IN
         /\ flow' = [flow EXCEPT !.writer = u.w, !.arg = len]
         /\ last' = Op("write", u.res, u.err)
    /\ UNCHANGED connVars

\* DatagramFlow::on_conn_error is called by two threads, each with an
\* error of its own; the read lock of the flow excludes neither the other
\* caller nor the handles
CallError(i) == IF i = 1 THEN TransportError ELSE CcfError

\* DatagramFlow::on_conn_error, first statement under the shared read
\* lock: raw_flow.reader.on_conn_error(error)
OnConnErrorReader ==
    /\ \E i \in DOMAIN flow.calls :
         /\ flow.calls[i] = "idle"
         /\ flow' = [flow EXCEPT
                       !.reader = ReaderOnConnError(flow.reader, CallError(i)),
                       !.calls[i] = "reader"]
         /\ last' = Op("on_conn_error_reader", "ok", CallError(i))
    /\ UNCHANGED connVars

\* DatagramFlow::on_conn_error, second statement:
\* raw_flow.writer.on_conn_error(error), and the return
OnConnErrorWriter ==
    /\ \E i \in DOMAIN flow.calls :
         /\ flow.calls[i] = "reader"
         /\ flow' = [flow EXCEPT
                       !.writer = WriterOnConnError(flow.writer, CallError(i)),
                       !.calls[i] = "done",
                       !.first = IF @ = NoErr THEN CallError(i) ELSE @]
         /\ last' = Op("on_conn_error_writer", "ok", CallError(i))
    /\ UNCHANGED connVars

NextFlow ==
    \/ UpdateRemoteMax
    \/ RecvDatagram
    \/ TryReadDatagram
    \/ Rw
    \/ HandleRead
    \/ HandleWrite
    \/ OnConnErrorReader
    \/ OnConnErrorWriter

\* the operations of a DatagramFlow and of its handle pairs, on_conn_error
\* in its two steps
SpecFlow == InitFlow /\ [][NextFlow]_vars

\* ---------------------------------------------------------- properties
Rank(tag) == IF tag = "Raw" THEN 0
             ELSE IF tag \in {"Closing", "Draining"} THEN 1 ELSE 2

AllRemovedOnce == \A c \in registered : removed[c] = 1

\* the mutex can only be lost after the holder has left Raw
RawHasFreeLock == state.tag = "Raw" => lock = "free"

\* C1: once the holder is Terminated (Closed), every connection ID that was
\* registered has been passed to Router::remove exactly once, whichever of
\* close, transport error, CcfReceived, NoViablePath and the timer-driven
\* die raced (on a connection that was given a path).
C1_ExactlyOnceRelease ==
    (DOMAIN pathes # {} /\ state.tag = "Closed") => AllRemovedOnce

\* C2: the holder only moves forward along Active -> {Closing | Draining}
\* -> Terminated: every step that changes the state raises its rank, so
\* Active never recurs and Terminated is never left.
C2_Monotonic ==
    [][state'.tag # state.tag => Rank(state'.tag) > Rank(state.tag)]_vars

C2_Witness ==
    /\ state.tag = "Closed"
    /\ mon.pc = "done"
    /\ race.pc = "done"
    /\ \E m \in Msgs : closeCall[m] = "done"

\* C3: on a connection with a path, a close / should_enter_closing /
\* enter_draining request that finds the holder already Closing or
\* Draining returns None and leaves the holder unchanged; the error stored
\* in Closing or Draining stays the one of the request that left Active.
C3_LoserNoOp ==
    [][ /\ (state.tag \in {"Closing", "Draining"}
              /\ DOMAIN pathes # {}
              /\ last'.op \in {"close", "should_enter_closing", "enter_draining"})
           => (state' = state /\ last'.res = "none")
        /\ (state.tag \in {"Closing", "Draining"}
              /\ state'.tag \in {"Closing", "Draining"})
           => state'.error = state.error ]_vars

\* C4: when the closing race of a Closing connection ends by the timeout,
\* the timer task has called die, the holder is Terminated and every
\* registered connection ID has been removed from the router exactly once.
C4_TimeoutTerminates ==
    race.evt = "timeout" => (state.tag = "Closed" /\ AllRemovedOnce)

\* C5: when the close confirmation wins the closing race, the connection
\* is Draining when draining() is called, its assertion holds and the drain
\* timer that will terminate the connection has been spawned.
C5_CcfDrains ==
    race.evt = "ccf" =>
        (race.res = "ok" /\ drainTimer > 0 /\ state.tag \in {"Draining", "Closed"})

\* C6: when the monitor dispatches a CcfReceived error on an Active
\* connection, ArcConnection::enter_draining completes: the state left Raw
\* for Draining, the call returned and the drain timer task was spawned
\* (on a connection that was given a path).
C6_EnterDrainingCompletes ==
    (DOMAIN pathes # {} /\ mon.pc = "done" /\ mon.kind = "CcfReceived"
        /\ mon.pre = "Raw") =>
        (mon.res = "ok" /\ drainTimer > 0 /\ lock = "free")

\* C7: an accessor called while the holder is Closing or Draining fails at
\* once with the error stored in that state and leaves the holder unchanged
\* (on a connection that was given a path).
C7_AccessorsFail ==
    (DOMAIN pathes # {} /\ last.op \in Accessors
        /\ last.pre \in {"Closing", "Draining"}) =>
        (last.res = "err" /\ last.err = state.error /\ state.tag = last.pre)

\* C8: no_vaiable_path on an Active connection gives the NoViablePath error
\* to every subsystem, aborts TLS, removes every owned connection ID from
\* the router in the same locked step, spawns no timer task and leaves the
\* holder Terminated.
C8_NoViablePathFromActive ==
    [][ (state.tag = "Raw" /\ last'.op = "no_vaiable_path") =>
          /\ state' = Closed
          /\ \A c \in Cids :
                removed'[c] = removed[c] + (IF c \in state.cids THEN 1 ELSE 0)
          /\ \A s \in Subsystems :
                subErr'[s] = NoViablePathError /\ notifyCnt'[s] = notifyCnt[s] + 1
          /\ tlsAborts' = tlsAborts + 1
          /\ race' = race
          /\ drainTimer' = drainTimer
          /\ lock' = "free"
          /\ last'.res = "ok" ]_vars

C8_Witness ==
    /\ last.op = "no_vaiable_path"
    /\ last.pre = "Raw"
    /\ state.tag = "Closed"
    /\ AllRemovedOnce
    /\ race.pc = "none"

\* C9: no_vaiable_path on a connection that is Closing, Draining or
\* Terminated changes nothing: holder, stored error, owned connection IDs
\* and router removals are as before.
C9_NoViablePathNoOp ==
    [][ (state.tag # "Raw" /\ last'.op = "no_vaiable_path") =>
          (state' = state /\ removed' = removed) ]_vars

\* C10: die on a connection that is already Terminated is a no-op: the
\* holder stays Terminated, no Router::remove call is made and the call
\* returns normally.
C10_DieAbsorbing ==
    [][ (state.tag = "Closed" /\ lock = "free"
           /\ last'.op \in {"die", "timer_die"}) =>
          (state' = state /\ removed' = removed /\ lock' = "free"
             /\ last'.res = "ok") ]_vars

\* C11: the monitor task consumes the error signal once and dispatches by
\* kind: Transport to should_enter_closing, CcfReceived to enter_draining,
\* NoViablePath to no_vaiable_path and Application to nothing, so the
\* monitor's step on an Application error changes nothing of the connection.
C11_MonitorDispatch ==
    [][ /\ mon.pc = "done" => mon'.pc = "done"
        /\ (mon.pc = "observed" /\ mon'.pc = "done") =>
              /\ mon.kind = "Transport" => last'.op = "should_enter_closing"
              /\ mon.kind = "CcfReceived" => last'.op = "enter_draining"
              /\ mon.kind = "NoViablePath" => last'.op = "no_vaiable_path"
              /\ mon.kind = "Application" =>
                    /\ last'.op = "monitor_noop"
                    /\ UNCHANGED <<state, lock, removed, subErr, flow,
                                   notifyCnt, tlsAborts, handles, race,
                                   drainTimer>> ]_vars

C11_Witness ==
    /\ mon.pc = "done"
    /\ mon.kind = "Application"
    /\ last.op = "monitor_noop"
    /\ state.tag = "Closing"
    /\ state.error = mon.err

\* C12: every subsystem has received on_conn_error zero times while the
\* holder is Active and exactly once after it has left Active, however many
\* terminal triggers raced; the TLS session is aborted exactly once likewise.
C12_NotifiedOnce ==
    /\ state.tag = "Raw" =>
          (tlsAborts = 0 /\ \A s \in Subsystems : notifyCnt[s] = 0)
    /\ state.tag # "Raw" =>
          (tlsAborts = 1 /\ \A s \in Subsystems : notifyCnt[s] = 1)

C12_Witness ==
    /\ state.tag = "Closing"
    /\ mon.pc = "done"
    /\ mon.kind \in {"Transport", "CcfReceived"}
    /\ \A m \in Msgs : closeCall[m] = "done"
    /\ \A s \in Subsystems : notifyCnt[s] = 1 /\ subErr[s] = state.error

\* C13: with path estimates t1..tk, the closing wait before the forced
\* termination is 3 x max(t1..tk), and a drain started directly from Active
\* runs on a timer of 3 x max(t1..tk).
C13_TimeoutArithmetic ==
    DOMAIN pathes # {} =>
        /\ state.tag = "Closing" => race.budget = 3 * PtoTime(pathes)
        /\ state.tag = "Draining" => drainTimer = 3 * PtoTime(pathes)

\* the closing wait is three times the largest path estimate
ClosingWaitIsThreePto ==
    race.pc # "none" => race.budget = 3 * PtoTime(pathes)

\* C17: should_enter_close on an Active connection makes the holder
\* Draining exactly when both the handshake space and the 1-RTT data space
\* are already discarded and Closing otherwise, keeping the remaining
\* spaces; the connection IDs and the triggering error are carried over and
\* the receive-task handles and the timeout are handed to the caller.
C17_ClosingOrDraining ==
    [][ (state.tag = "Raw" /\ last'.op = "should_enter_closing") =>
          /\ state'.tag = IF ~state.hs /\ ~state.one_rtt
                          THEN "Draining" ELSE "Closing"
          /\ state'.tag = "Closing" =>
                (state'.hs = state.hs /\ state'.one_rtt = state.one_rtt)
          /\ state'.cids = state.cids
          /\ state'.error = last'.err
          /\ handles = "raw" /\ handles' # "raw"
          /\ state'.tag = "Closing" =>
                (handles' = "forwarding"
                   /\ race'.pc = "racing"
                   /\ race'.budget = 3 * PtoTime(pathes)) ]_vars

\* C17, amended: the same for should_enter_close on an Active connection
\* that has at least one path; without a path the call panics at the
\* maximum over the paths and leaves the holder Closed.
C17_ClosingOrDrainingWithPath ==
    [][ (state.tag = "Raw" /\ last'.op = "should_enter_closing") =>
          IF DOMAIN pathes = {}
          THEN state' = Closed /\ last'.res = "panic" /\ lock' = "poisoned"
          ELSE /\ state'.tag = IF ~state.hs /\ ~state.one_rtt
                               THEN "Draining" ELSE "Closing"
               /\ state'.tag = "Closing" =>
                     (state'.hs = state.hs /\ state'.one_rtt = state.one_rtt)
               /\ state'.cids = state.cids
               /\ state'.error = last'.err
               /\ handles = "raw" /\ handles' # "raw"
               /\ state'.tag = "Closing" =>
                     (handles' = "forwarding"
                        /\ race'.pc = "racing"
                        /\ race'.budget = 3 * PtoTime(pathes)) ]_vars

C17_Witness ==
    /\ last.op = "should_enter_closing"
    /\ last.pre = "Raw"
    /\ state.tag = "Closing"
    /\ ~state.hs
    /\ state.one_rtt
    /\ state.error = last.err
    /\ state.cids = registered

\* C18: when should_enter_closing finds no salvageable crypto space and the
\* holder becomes Draining, the procedure drops the receive-task handles,
\* starts a drain timer of 3 x timeout and returns.
C18_DirectDrainCompletes ==
    (last.op = "should_enter_closing" /\ last.pre = "Raw"
        /\ state.tag = "Draining") =>
      (handles = "dropped" /\ last.res = "ok" /\ lock = "free"
         /\ drainTimer = 3 * PtoTime(pathes))

\* C19: without a direct application call of die, ConnState::die runs only
\* on a Closing or Draining holder: its unreachable!() arm is never taken.
C19_DieOnlyFromClosingOrDraining ==
    [][ (last'.op = "timer_die" /\ lock = "free") =>
          state.tag \in {"Closing", "Draining"} ]_vars

\* C20: no accessor holds the connection mutex while it is suspended: with
\* any number of accessors waiting on an Active connection the mutex is
\* free, and the close or monitor request that runs then performs the
\* transition out of Active.
C20_NoLockAcrossAwait ==
    [][ (NumSuspended > 0 /\ state.tag = "Raw") =>
          /\ lock = "free"
          /\ last'.op \in {"should_enter_closing", "enter_draining",
                            "no_vaiable_path"} => state'.tag # "Raw" ]_vars

C20_Witness ==
    /\ NumSuspended = MaxSuspended
    /\ last.op = "should_enter_closing"
    /\ last.pre = "Raw"
    /\ last.res = "ok"
    /\ state.tag = "Closing"

\* C14: once an on_conn_error(e) call has returned, every read and every
\* write through any handle pair fails with e, and an on_conn_error step
\* made after that changes neither the reader nor the writer.
C14_FirstErrorWins ==
    [][ flow.first # NoErr =>
          /\ last'.op \in {"read", "write"} =>
                (last'.res = "err" /\ last'.err = flow.first)
          /\ last'.op \in {"on_conn_error_reader", "on_conn_error_writer"} =>
                (flow'.reader = flow.reader /\ flow'.writer = flow.writer) ]_vars

\* C15: a flow made by new(local, remote) checks inbound datagrams against
\* local, so recv_datagram fails exactly when the payload is larger than
\* local, and starts the outbound ceiling at remote.
C15_LimitsNotInterchanged ==
    [][ (last'.op = "recv_datagram" /\ flow.reader.err = NoErr) =>
          (last'.res = "err" <=> flow'.arg > flow.local) ]_vars

\* C16: on a flow without a connection error,
\* update_remote_max_datagram_frame_size(n) fails and leaves the writer
\* unchanged when n is smaller than the negotiated remote size, succeeds
\* and makes n the writer's ceiling otherwise; the negotiated remote size
\* never decreases.
C16_RemoteSizeMonotonic ==
    [][ /\ flow'.negotiated >= flow.negotiated
        /\ (last'.op = "update_remote_max" /\ flow.writer.err = NoErr) =>
              IF flow'.arg < flow.negotiated
              THEN last'.res = "err" /\ flow'.writer = flow.writer
              ELSE last'.res = "ok" /\ flow'.writer.limit = flow'.arg ]_vars

\* C21: no operation of the handle locks the connection mutex again while
\* its own thread holds the guard: the mutex is never left locked for ever,
\* and enter_draining on an Active connection that was given a path returns
\* with the mutex free.
C21_NoRelockByHolder ==
    /\ lock # "stuck"
    /\ (DOMAIN pathes # {} /\ last.op = "enter_draining" /\ last.pre = "Raw") =>
          (last.res = "ok" /\ lock = "free")

\* C22: is_active() returns true exactly when the holder contains Raw,
\* false when it contains Closing, Draining or Closed, and leaves the state
\* as it was.
C22_IsActiveExact ==
    [][ (last'.op = "is_active" /\ last'.res \in {"true", "false"}) =>
          /\ last'.res = "true" <=> state.tag = "Raw"
          /\ state' = state ]_vars

\* C23: however two on_conn_error calls with different errors interleave,
\* once both have returned the reader and the writer store the same error.
C23_SameErrorStored ==
    (\A i \in DOMAIN flow.calls : flow.calls[i] = "done") =>
        flow.reader.err = flow.writer.err

====
